---- MODULE Spec2Model ----
(***************************************************************************)
(* Model of webscraper/webscraper.py: the WebScraper class, its metadata   *)
(* store (SQLite table url_metadata), its frontier (self.queue) with the   *)
(* pickled snapshot (queue_file), the link filter (extract_links) and the  *)
(* sequential control loop (comprehensive_crawler).                        *)
(*                                                                         *)
(* A URL is a sequence of characters, so that str.startswith is a real     *)
(* prefix test.  A fetched page is the sequence of the href values of its  *)
(* <a href> elements, in document order.                                   *)
(***************************************************************************)
EXTENDS Integers, Sequences, FiniteSets, TLC

VARIABLES
  max_links,    \* self.max_links of the current WebScraper
  max_depth,    \* self.max_depth of the current WebScraper
  queue,        \* self.queue: the in-memory frontier, a sequence of entries
  visited,      \* self.visited
  link_count,   \* self.link_count
  results,      \* the local list `results` of comprehensive_crawler
  store,        \* the table url_metadata: url -> record (durable)
  snapshot,     \* the file queue_file (durable): [exists, queue]
  pc,           \* position of the process in comprehensive_crawler
  cur,          \* the entry popped at line 449 (url, depth)
  res,          \* the local `result` of the loop body (line 460)
  links,        \* the value returned by the last extract_links call
  fetchLog,     \* history: the fetches of the current run, in order
  startState,   \* history: what the current run found when it started
  prev,         \* history: how the previous run ended
  collection,   \* the ids held by the ChromaDB collection (durable)
  enqueued,     \* history: the entries put into self.queue in this run
  dequeued,     \* history: the entries popped from self.queue in this run
  futures       \* the futures of comprehensive_crawler_threaded, one per
                \* entry submitted to the pool

vars == <<max_links, max_depth, queue, visited, link_count, results, store,
          snapshot, pc, cur, res, links, fetchLog, startState, prev,
          collection, enqueued, dequeued, futures>>

----------------------------------------------------------------------------
(* Bounds of the model *)

MaxLinksBound == 2
MaxDepthBound == 1
MaxHrefs == 2
MaxInputHrefs == 3
MaxCalls == 3
MaxFrontier == 2
MaxSaves == 2

----------------------------------------------------------------------------
(* URLs and pages *)

Root == <<"e">>          \* "https://ex.com"
UrlA == <<"e", "a">>     \* "https://ex.com/a"
UrlC == <<"e", "c">>     \* "https://ex.com/c"
UrlB == <<"o", "b">>     \* "https://other.com/b"
UrlX == <<"E", "a">>     \* "HTTPS://EX.COM/a": UrlA in another case

Hrefs == {Root, UrlA, UrlC, UrlB, UrlX}

\* The hrefs of the pages of the crawled site.
SiteHrefs == {Root, UrlA, UrlC, UrlB}

start_url == Root

SeqsUpTo(S, n) == UNION {[1..k -> S] : k \in 0..n}

\* What fetch_with_headless_browser can return: None (ok = FALSE) or the
\* page source, of which the model keeps the hrefs.
FetchOutcomes ==
  {[ok |-> FALSE, html |-> <<>>]} \cup
  {[ok |-> TRUE, html |-> h] : h \in SeqsUpTo(SiteHrefs, MaxHrefs)}

NoResult == [fetched |-> FALSE, ok |-> FALSE, html |-> <<>>]
NoEntry == [url |-> <<>>, depth |-> 0]
NoFile == [exists |-> FALSE, data |-> <<>>]
NoPrev == [crashed |-> FALSE, done |-> {}, pending |-> {},
           max_links |-> 0, max_depth |-> 0]

Urls(q) == {q[i].url : i \in DOMAIN q}

----------------------------------------------------------------------------
(* Metadata store *)

\* A row of url_metadata without its key; processed defaults to 0.
Row(content_hash, depth, title) ==
  [content_hash |-> content_hash, depth |-> depth, title |-> title,
   processed |-> FALSE]

save_url_metadata_replace(st, url, content_hash, depth, title) ==
  [u \in DOMAIN st \cup {url} |->
     IF u = url THEN Row(content_hash, depth, title) ELSE st[u]]

\* INSERT OR IGNORE INTO url_metadata (url, content_hash, depth, title):
\* url is the primary key, so a row is added only for a URL without row.
save_url_metadata(st, url, content_hash, depth, title) ==
  IF url \in DOMAIN st
    THEN st
    ELSE st @@ (url :> Row(content_hash, depth, title))

\* UPDATE url_metadata SET processed = 1 WHERE url = ?
mark_url_processed(st, url) ==
  IF url \in DOMAIN st THEN [st EXCEPT ![url].processed = TRUE] ELSE st

\* SELECT 1 FROM url_metadata WHERE url = ?
is_url_visited(st, url) == url \in DOMAIN st

\* The pair (already_in_db, not_in_db), each in the order of urls.
check_bulk_links(st, urls) ==
  <<SelectSeq(urls, LAMBDA u : u \in DOMAIN st),
    SelectSeq(urls, LAMBDA u : u \notin DOMAIN st)>>

----------------------------------------------------------------------------
(* Frontier snapshot *)

\* The pickle of a deque of (url, depth) tuples, as a sequence of tokens:
\* one per tuple, in order, and the STOP opcode that ends every pickle.
Stop == [op |-> "STOP", url |-> <<>>, depth |-> 0]

pickle_dump_reversed(q) ==
  [i \in 1..Len(q) |-> [op |-> "TUPLE", url |-> q[Len(q) + 1 - i].url,
                                        depth |-> q[Len(q) + 1 - i].depth]]
    \o <<Stop>>

pickle_dump(q) ==
  [i \in 1..Len(q) |-> [op |-> "TUPLE", url |-> q[i].url, depth |-> q[i].depth]]
    \o <<Stop>>

\* pickle.load: the deque of the tuples read, or an exception (ok = FALSE)
\* when the data do not end with STOP after the tuples.
pickle_load(b) ==
  IF /\ b # <<>>
     /\ b[Len(b)].op = "STOP"
     /\ \A i \in 1..(Len(b) - 1) : b[i].op = "TUPLE"
    THEN [ok |-> TRUE,
          value |-> [i \in 1..(Len(b) - 1) |->
                       [url |-> b[i].url, depth |-> b[i].depth]]]
    ELSE [ok |-> FALSE, value |-> <<>>]

\* pickle.dump(queue, f) on a file opened "wb": the file holds that pickle
\* and nothing of what it held before.
save_queue(q) == [exists |-> TRUE, data |-> pickle_dump(q)]

load_queue_partial(f) ==
  LET t == SelectSeq(f.data, LAMBDA x : x.op = "TUPLE")
  IN  [i \in 1..Len(t) |-> [url |-> t[i].url, depth |-> t[i].depth]]

\* os.path.exists, then pickle.load; a new deque when there is no file or
\* when pickle.load raises (lines 222-224).
load_queue(f) ==
  IF f.exists
    THEN LET r == pickle_load(f.data)
         IN  IF r.ok THEN r.value ELSE <<>>
    ELSE <<>>

----------------------------------------------------------------------------
(* Link filter *)

Lower(ch) == IF ch = "E" THEN "e" ELSE ch

startswith_nocase(s, p) ==
  /\ Len(s) >= Len(p)
  /\ \A i \in 1..Len(p) : Lower(s[i]) = Lower(p[i])

\* str.startswith: p is a prefix of s, character by character.
startswith(s, p) ==
  /\ Len(s) >= Len(p)
  /\ \A i \in 1..Len(p) : s[i] = p[i]

\* extract_links parses the page, keeps the hrefs that start with start_url,
\* asks check_bulk_links which of them are known, logs the answer and
\* returns the list `links` itself.  A page that is None makes BeautifulSoup
\* raise, and the handler returns [].
extract_links(page, st) ==
  IF ~page.ok
    THEN <<>>
    ELSE LET kept == SelectSeq(page.html, LAMBDA h : startswith(h, start_url))
             checked == IF kept # <<>> THEN check_bulk_links(st, kept)
                                      ELSE <<<<>>, <<>>>>
             not_valid_links == checked[1]
             all_links == checked[2]
         IN  kept

----------------------------------------------------------------------------
(* process_url and the indexer *)

\* is_already_indexed: True as soon as the URL has a metadata record (the
\* look-up in the collection only matters for a URL without record).
is_already_indexed(st, url) == is_url_visited(st, url)

store_in_chroma_marks_always(st, url, depth, content_hash, indexed) ==
  IF depth # 0 /\ is_already_indexed(st, url)
    THEN st
    ELSE mark_url_processed(
           save_url_metadata(st, url, content_hash, depth, "Title"), url)

\* store_in_chroma: returns early for a non-root depth when the URL is
\* already indexed; else records the URL with its title (a no-op when the
\* record exists) and, when the embedding and the insert succeed
\* (indexed), marks the record processed.
store_in_chroma(st, url, depth, content_hash, indexed) ==
  IF depth # 0 /\ is_already_indexed(st, url)
    THEN st
    ELSE LET s1 == save_url_metadata(st, url, content_hash, depth, "Title")
         IN  IF indexed THEN mark_url_processed(s1, url) ELSE s1

\* The outcomes of generate_embedding and collection.add for a page.  The
\* indexer is taken to succeed: its failure is caught inside
\* store_in_chroma (line 348) and only leaves processed = 0, which no
\* condition of the crawler reads.
IndexerOutcomes == {TRUE}

\* Line 297: the guard under which process_url returns without fetching.
SkipsVisited(st, url, depth) == depth # 0 /\ is_url_visited(st, url)

\* Lines 331-344: self.collection.add(..., ids=[url]) is reached when
\* store_in_chroma does not return early and the embedding is there; with
\* `indexed` the insert succeeds.
collection_add(coll, st, url, depth, indexed) ==
  IF depth # 0 /\ is_already_indexed(st, url)
    THEN coll
    ELSE IF indexed THEN coll \cup {url} ELSE coll

\* Line 310: content_hash = hash(content).  A page of the model carries its
\* hrefs only; the paragraphs, and so their hash, are the same for all.
hash(page) == "h0"

process_url_store_always(st, url, depth, page, indexed) ==
  store_in_chroma(save_url_metadata(st, url, hash(page), depth, "None"),
                  url, depth, hash(page), indexed)

\* The store after process_url(url, depth) fetched `page`.
process_url_store(st, url, depth, page, indexed) ==
  IF page.ok
    THEN store_in_chroma(save_url_metadata(st, url, hash(page), depth, "None"),
                         url, depth, hash(page), indexed)
    ELSE st

\* The collection after process_url(url, depth) fetched `page`.
process_url_collection(coll, st, url, depth, page, indexed) ==
  IF page.ok
    THEN collection_add(coll, save_url_metadata(st, url, hash(page), depth,
                                                "None"),
                        url, depth, indexed)
    ELSE coll

\* Line 460: the depth argument the sequential loop passes to process_url.
CallDepth(depth) == 0

----------------------------------------------------------------------------
(* Conditions of the sequential control loop *)

LoopCondNoBudget(q, lc, ml) == q # <<>>

LoopCondOffByOne(q, lc, ml) == q # <<>> /\ lc + 1 < ml

\* Line 448: while self.queue and self.link_count < self.max_links
LoopCond(q, lc, ml) == q # <<>> /\ lc < ml

DepthNeverExceeded(depth, md) == FALSE

\* Line 452: if depth > self.max_depth
DepthExceeded(depth, md) == depth > md

AlreadyVisitedNever(url, vis) == FALSE

\* Line 455: if url in self.visited
AlreadyVisited(url, vis) == url \in vis

\* Line 462: `if result:`; result is always a 3-tuple, and a non-empty tuple
\* is true whatever it holds.
ResultTruthy(r) == TRUE

\* Line 468: self.link_count < self.max_links and depth + 1 <= self.max_depth
CanExpand(lc, ml, depth, md) == lc < ml /\ depth + 1 <= md

\* Lines 471-475: the guard of self.queue.append((link, depth + 1))
ShouldEnqueue(link, vis, st, lc, ml) ==
  /\ link \notin vis
  /\ ~is_url_visited(st, link)
  /\ lc < ml

AfterPopRight(q) == SubSeq(q, 1, Len(q) - 1)

\* Line 449: the queue after popleft()
AfterPop(q) == Tail(q)

save_queue_short(q) ==
  save_queue(IF q = <<>> THEN q ELSE SubSeq(q, 1, Len(q) - 1))

\* Line 480: the file after self.save_queue(self.queue)
Checkpoint(q) == save_queue(q)

KeepFile(q, f) == f

\* Lines 482-483: the file is removed when the queue is empty
RemoveIfDrained(q, f) == IF q = <<>> /\ f.exists THEN NoFile ELSE f

----------------------------------------------------------------------------
(* The process: construction, the steps of comprehensive_crawler, a crash *)

Running == {"new", "loop", "fetching", "processed"}

Init ==
  /\ max_links \in 1..MaxLinksBound
  /\ max_depth \in 0..MaxDepthBound
  /\ queue = <<>>
  /\ visited = {}
  /\ link_count = 0
  /\ results = <<>>
  /\ store = <<>>
  /\ snapshot = NoFile
  /\ pc = "new"
  /\ cur = NoEntry
  /\ res = NoResult
  /\ links = <<>>
  /\ fetchLog = <<>>
  /\ startState = [emptyStore |-> TRUE, hadSnapshot |-> FALSE]
  /\ prev = NoPrev
  /\ collection = {}
  /\ enqueued = <<>>
  /\ dequeued = <<>>
  /\ futures = <<>>

\* Lines 441-446: restore the frontier, or start from the seed.
Start ==
  /\ pc = "new"
  /\ LET q == load_queue(snapshot)
     IN  queue' = IF q = <<>> THEN <<[url |-> start_url, depth |-> 0]>> ELSE q
  /\ startState' = [emptyStore |-> DOMAIN store = {},
                    hadSnapshot |-> snapshot.exists]
  /\ pc' = "loop"
  /\ enqueued' = queue'
  /\ UNCHANGED <<max_links, max_depth, visited, link_count, results, store,
                 snapshot, cur, res, links, fetchLog, prev,
                 collection, dequeued, futures>>

\* Lines 449-457: pop an entry and `continue`, because its depth exceeds
\* max_depth or because this run has visited its URL; the checkpoint of
\* line 480 is not reached.
DequeueSkip ==
  /\ pc = "loop"
  /\ LoopCond(queue, link_count, max_links)
  /\ \/ DepthExceeded(Head(queue).depth, max_depth)
     \/ AlreadyVisited(Head(queue).url, visited)
  /\ queue' = AfterPop(queue)
  /\ cur' = Head(queue)
  /\ dequeued' = Append(dequeued, cur')
  /\ UNCHANGED <<max_links, max_depth, visited, link_count, results, store,
                 snapshot, pc, res, links, fetchLog, startState, prev,
                 collection, enqueued, futures>>

\* Lines 449-460: pop an entry, add its URL to visited, enter process_url.
DequeueProcess ==
  /\ pc = "loop"
  /\ LoopCond(queue, link_count, max_links)
  /\ ~DepthExceeded(Head(queue).depth, max_depth)
  /\ ~AlreadyVisited(Head(queue).url, visited)
  /\ queue' = AfterPop(queue)
  /\ cur' = Head(queue)
  /\ visited' = visited \cup {Head(queue).url}
  /\ res' = NoResult
  /\ links' = <<>>
  /\ pc' = "fetching"
  /\ dequeued' = Append(dequeued, cur')
  /\ UNCHANGED <<max_links, max_depth, link_count, results, store, snapshot,
                 fetchLog, startState, prev,
                 collection, enqueued, futures>>

\* Lines 295-315: process_url(url, 0).  Under the guard of line 297 it
\* returns (None, None, None) without fetching; else it fetches the page
\* and, with content, records the URL and calls the indexer.
ProcessUrl ==
  /\ pc = "fetching"
  /\ IF SkipsVisited(store, cur.url, CallDepth(cur.depth))
       THEN /\ res' = NoResult
            /\ UNCHANGED <<store, collection, fetchLog>>
       ELSE \E page \in FetchOutcomes, indexed \in IndexerOutcomes :
              /\ res' = [fetched |-> TRUE, ok |-> page.ok, html |-> page.html]
              /\ store' = process_url_store(store, cur.url,
                                            CallDepth(cur.depth), page, indexed)
              /\ collection' = process_url_collection(collection, store,
                                   cur.url, CallDepth(cur.depth), page, indexed)
              /\ fetchLog' = Append(fetchLog,
                                    [url |-> cur.url, depth |-> cur.depth,
                                     known |-> is_url_visited(store, cur.url),
                                     ok |-> page.ok,
                                     indexer |-> IF ~page.ok THEN "none"
                                                 ELSE IF indexed THEN "ok"
                                                 ELSE "failed"])
  /\ pc' = "processed"
  /\ UNCHANGED <<max_links, max_depth, queue, visited, link_count, results,
                 snapshot, cur, links, startState, prev,
                 enqueued, dequeued, futures>>

\* The entries lines 470-476 append for the list `found`.
NewEntries(found, depth, vis, st, lc, ml) ==
  LET keep == SelectSeq(found, LAMBDA l : ShouldEnqueue(l, vis, st, lc, ml))
  IN  [i \in 1..Len(keep) |-> [url |-> keep[i], depth |-> depth + 1]]

ExpandIgnoringBudget(found, depth, vis, st, lc, ml, md) ==
  IF depth + 1 <= md
    THEN NewEntries(found, depth, vis, st, 0, 1)
    ELSE <<>>

\* Lines 468-476: the entries the loop body appends to the queue, `found`
\* being what extract_links returned.
Expand(found, depth, vis, st, lc, ml, md) ==
  IF CanExpand(lc, ml, depth, md)
    THEN NewEntries(found, depth, vis, st, lc, ml)
    ELSE <<>>

ExtendLeft(q, es) == es \o q

\* Line 476: self.queue.append for each new entry, in order.
Extend(q, es) == q \o es

\* Lines 462-480: count the result, expand the page, checkpoint.
FinishIteration ==
  /\ pc = "processed"
  /\ LET lc == IF ResultTruthy(res) THEN link_count + 1 ELSE link_count
         found == extract_links(res, store)
         new == Expand(found, cur.depth, visited, store, lc,
                       max_links, max_depth)
         q == Extend(queue, new)
     IN  /\ link_count' = lc
         /\ results' = IF ResultTruthy(res)
                         THEN Append(results, [url |-> cur.url, ok |-> res.ok])
                         ELSE results
         /\ links' = IF CanExpand(lc, max_links, cur.depth, max_depth)
                        THEN found ELSE <<>>
         /\ queue' = q
         /\ enqueued' = enqueued \o new
         /\ snapshot' = Checkpoint(q)
  /\ pc' = "loop"
  /\ UNCHANGED <<max_links, max_depth, visited, store, cur, res,
                 fetchLog, startState, prev,
                 collection, dequeued, futures>>

\* Lines 448, 482-489: the loop ends and the crawler returns results.
LoopExit ==
  /\ pc = "loop"
  /\ ~LoopCond(queue, link_count, max_links)
  /\ snapshot' = RemoveIfDrained(queue, snapshot)
  /\ pc' = "done"
  /\ UNCHANGED <<max_links, max_depth, queue, visited, link_count, results,
                 store, cur, res, links, fetchLog, startState, prev,
                 collection, enqueued, dequeued, futures>>

\* The process is killed: only the store and the snapshot file survive.
Crash ==
  /\ pc \in Running
  /\ pc' = "crashed"
  /\ prev' = IF startState.emptyStore /\ ~startState.hadSnapshot
               THEN [crashed |-> TRUE,
                     done |-> {fetchLog[i].url :
                                 i \in {j \in DOMAIN fetchLog : fetchLog[j].ok}},
                     pending |-> Urls(queue),
                     max_links |-> max_links, max_depth |-> max_depth]
               ELSE NoPrev
  /\ queue' = <<>>
  /\ visited' = {}
  /\ link_count' = 0
  /\ results' = <<>>
  /\ cur' = NoEntry
  /\ res' = NoResult
  /\ links' = <<>>
  /\ fetchLog' = <<>>
  /\ enqueued' = <<>>
  /\ dequeued' = <<>>
  /\ UNCHANGED <<max_links, max_depth, store, snapshot, startState,
                 collection, futures>>

\* A new process: WebScraper.__init__ (lines 27-37) on the same store and
\* the same queue_file.
NewRun ==
  /\ pc \in {"done", "crashed"}
  /\ max_links' \in 1..MaxLinksBound
  /\ max_depth' \in 0..MaxDepthBound
  /\ queue' = <<>>
  /\ visited' = {}
  /\ link_count' = 0
  /\ results' = <<>>
  /\ cur' = NoEntry
  /\ res' = NoResult
  /\ links' = <<>>
  /\ fetchLog' = <<>>
  /\ startState' = [emptyStore |-> DOMAIN store = {},
                    hadSnapshot |-> snapshot.exists]
  /\ prev' = IF pc = "crashed" THEN prev ELSE NoPrev
  /\ pc' = "new"
  /\ enqueued' = <<>>
  /\ dequeued' = <<>>
  /\ UNCHANGED <<store, snapshot,
                 collection, futures>>

RunStep ==
  \/ Start
  \/ DequeueSkip
  \/ DequeueProcess
  \/ ProcessUrl
  \/ FinishIteration
  \/ LoopExit

Next ==
  \/ RunStep
  \/ Crash
  \/ NewRun

Spec == Init /\ [][Next]_vars

\* A process that is not killed: a run from the seed and, after it has
\* returned, a run of a new process on the store and snapshot it left.
\* comprehensive_crawler is sequential code, so a step that is enabled is
\* eventually taken.
Resume ==
  /\ startState.emptyStore
  /\ ~startState.hadSnapshot
  /\ NewRun

NextUnkilled ==
  \/ RunStep
  \/ Resume

FairSpec == Init /\ [][NextUnkilled]_vars /\ WF_vars(RunStep)

----------------------------------------------------------------------------
(* One run from the seed, with a budget and a depth that let it reach the
   second level below the seed *)

InitBfs ==
  /\ max_links \in 1..(MaxLinksBound + 1)
  /\ max_depth \in 0..(MaxDepthBound + 1)
  /\ queue = <<>>
  /\ visited = {}
  /\ link_count = 0
  /\ results = <<>>
  /\ store = <<>>
  /\ snapshot = NoFile
  /\ pc = "new"
  /\ cur = NoEntry
  /\ res = NoResult
  /\ links = <<>>
  /\ fetchLog = <<>>
  /\ startState = [emptyStore |-> TRUE, hadSnapshot |-> FALSE]
  /\ prev = NoPrev
  /\ collection = {}
  /\ enqueued = <<>>
  /\ dequeued = <<>>
  /\ futures = <<>>

SpecBfs == InitBfs /\ [][RunStep]_vars

----------------------------------------------------------------------------
(* Failures of the collaborators: the indexer and the metadata store *)

ContentPages == {page \in FetchOutcomes : page.ok}

\* Lines 325-349: generate_embedding returns None or collection.add
\* raises; store_in_chroma logs the error and returns, the record written
\* at line 311 stays without the processed mark.
IndexerFails ==
  /\ pc = "fetching"
  /\ ~SkipsVisited(store, cur.url, CallDepth(cur.depth))
  /\ \E page \in ContentPages :
       /\ res' = [fetched |-> TRUE, ok |-> TRUE, html |-> page.html]
       /\ store' = process_url_store(store, cur.url, CallDepth(cur.depth),
                                     page, FALSE)
       /\ collection' = process_url_collection(collection, store, cur.url,
                                               CallDepth(cur.depth), page, FALSE)
       /\ fetchLog' = Append(fetchLog,
                             [url |-> cur.url, depth |-> cur.depth,
                              known |-> is_url_visited(store, cur.url),
                              ok |-> TRUE, indexer |-> "failed"])
  /\ pc' = "processed"
  /\ UNCHANGED <<max_links, max_depth, queue, visited, link_count, results,
                 snapshot, cur, links, startState, prev, enqueued, dequeued, futures>>

\* Lines 346, 88-96: collection.add succeeded, the UPDATE of
\* mark_url_processed raises; the error is logged inside mark_url_processed.
MarkProcessedFails ==
  /\ pc = "fetching"
  /\ ~SkipsVisited(store, cur.url, CallDepth(cur.depth))
  /\ \E page \in ContentPages :
       /\ res' = [fetched |-> TRUE, ok |-> TRUE, html |-> page.html]
       /\ store' = process_url_store(store, cur.url, CallDepth(cur.depth),
                                     page, FALSE)
       /\ collection' = process_url_collection(collection, store, cur.url,
                                               CallDepth(cur.depth), page, TRUE)
       /\ fetchLog' = Append(fetchLog,
                             [url |-> cur.url, depth |-> cur.depth,
                              known |-> is_url_visited(store, cur.url),
                              ok |-> TRUE, indexer |-> "unmarked"])
  /\ pc' = "processed"
  /\ UNCHANGED <<max_links, max_depth, queue, visited, link_count, results,
                 snapshot, cur, links, startState, prev, enqueued, dequeued, futures>>

\* Line 311: save_url_metadata raises (sqlite3.Error).  Neither
\* save_url_metadata nor process_url nor the loop body catches it: control
\* passes to the handler of line 491, `result` is never assigned.
SaveMetadataFails ==
  /\ pc = "fetching"
  /\ ~SkipsVisited(store, cur.url, CallDepth(cur.depth))
  /\ fetchLog' = Append(fetchLog,
                        [url |-> cur.url, depth |-> cur.depth,
                         known |-> is_url_visited(store, cur.url),
                         ok |-> TRUE, indexer |-> "none"])
  /\ pc' = "except"
  /\ UNCHANGED <<max_links, max_depth, queue, visited, link_count, results,
                 store, snapshot, cur, res, links, startState, prev,
                 collection, enqueued, dequeued, futures>>

\* Line 473: is_url_visited(link) raises for the k-th link of the page,
\* after lines 464-466 counted the result and the links before it were
\* enqueued; the call is reached for a link that is not in self.visited.
\* Control passes to the handler of line 491, save_queue is not reached.
LinkCheckFails ==
  /\ pc = "processed"
  /\ LET lc == IF ResultTruthy(res) THEN link_count + 1 ELSE link_count
         found == extract_links(res, store)
     IN  /\ CanExpand(lc, max_links, cur.depth, max_depth)
         /\ \E k \in DOMAIN found :
              /\ found[k] \notin visited
              /\ LET new == NewEntries(SubSeq(found, 1, k - 1), cur.depth,
                                       visited, store, lc, max_links)
                 IN  /\ queue' = Extend(queue, new)
                     /\ enqueued' = enqueued \o new
         /\ link_count' = lc
         /\ results' = IF ResultTruthy(res)
                         THEN Append(results, [url |-> cur.url, ok |-> res.ok])
                         ELSE results
         /\ links' = found
  /\ pc' = "except"
  /\ UNCHANGED <<max_links, max_depth, visited, store, snapshot, cur, res,
                 fetchLog, startState, prev, collection, dequeued, futures>>

\* Lines 491-494: the handler logs the exception and returns results.
ReturnPartial ==
  /\ pc = "except"
  /\ pc' = "aborted"
  /\ UNCHANGED <<max_links, max_depth, queue, visited, link_count, results,
                 store, snapshot, cur, res, links, fetchLog, startState, prev,
                 collection, enqueued, dequeued, futures>>

NextFaults ==
  \/ RunStep
  \/ Resume
  \/ IndexerFails
  \/ MarkProcessedFails
  \/ SaveMetadataFails
  \/ LinkCheckFails
  \/ ReturnPartial

SpecFaults == Init /\ [][NextFaults]_vars

----------------------------------------------------------------------------
(* extract_links on its own: any page, any store *)

StoreOf(S) == [u \in S |-> Row("h0", 0, "None")]

InitLinks ==
  /\ max_links = 1
  /\ max_depth = 0
  /\ queue = <<>>
  /\ visited = {}
  /\ link_count = 0
  /\ results = <<>>
  /\ store \in {StoreOf(S) : S \in SUBSET Hrefs}
  /\ snapshot = NoFile
  /\ pc = "call"
  /\ cur = NoEntry
  /\ res \in {[fetched |-> TRUE, ok |-> TRUE, html |-> h] :
                h \in SeqsUpTo(Hrefs, MaxInputHrefs)}
  /\ links = <<>>
  /\ fetchLog = <<>>
  /\ startState = [emptyStore |-> TRUE, hadSnapshot |-> FALSE]
  /\ prev = NoPrev
  /\ collection = {}
  /\ enqueued = <<>>
  /\ dequeued = <<>>
  /\ futures = <<>>

\* links = self.extract_links(html_content)
ExtractLinksCall ==
  /\ pc = "call"
  /\ links' = extract_links(res, store)
  /\ pc' = "returned"
  /\ UNCHANGED <<max_links, max_depth, queue, visited, link_count, results,
                 store, snapshot, cur, res, fetchLog, startState, prev,
                 collection, enqueued, dequeued, futures>>

NextLinks == ExtractLinksCall

SpecLinks == InitLinks /\ [][NextLinks]_vars

----------------------------------------------------------------------------
(* The metadata store on its own: any sequence of calls *)

StoreUrls == {Root, UrlA}
Hashes == {"h1", "h2"}
Titles == {"None", "Title"}

InitStore ==
  /\ max_links = 1
  /\ max_depth = 0
  /\ queue = <<>>
  /\ visited = {}
  /\ link_count = 0
  /\ results = <<>>
  /\ store = <<>>
  /\ snapshot = NoFile
  /\ pc = "store"
  /\ cur = NoEntry
  /\ res = NoResult
  /\ links = <<>>
  /\ fetchLog = <<>>
  /\ startState = [emptyStore |-> TRUE, hadSnapshot |-> FALSE]
  /\ prev = NoPrev
  /\ collection = {}
  /\ enqueued = <<>>
  /\ dequeued = <<>>
  /\ futures = <<>>

\* self.save_url_metadata(url, content_hash, depth, title); fetchLog keeps
\* the arguments of the calls, in order.
SaveUrlMetadataCall ==
  /\ pc = "store"
  /\ Len(fetchLog) < MaxCalls
  /\ \E url \in StoreUrls, h \in Hashes, d \in 0..MaxDepthBound, t \in Titles :
       /\ store' = save_url_metadata(store, url, h, d, t)
       /\ fetchLog' = Append(fetchLog, [url |-> url, content_hash |-> h,
                                        depth |-> d, title |-> t])
  /\ UNCHANGED <<max_links, max_depth, queue, visited, link_count, results,
                 snapshot, pc, cur, res, links, startState, prev,
                 collection, enqueued, dequeued, futures>>

\* self.mark_url_processed(url)
MarkUrlProcessedCall ==
  /\ pc = "store"
  /\ \E url \in StoreUrls : store' = mark_url_processed(store, url)
  /\ UNCHANGED <<max_links, max_depth, queue, visited, link_count, results,
                 snapshot, pc, cur, res, links, fetchLog, startState, prev,
                 collection, enqueued, dequeued, futures>>

NextStore ==
  \/ SaveUrlMetadataCall
  \/ MarkUrlProcessedCall

SpecStore == InitStore /\ [][NextStore]_vars

----------------------------------------------------------------------------
(* process_url on its own: any URL, any depth, in the thread that owns the
   store connection *)

\* Line 321 as process_url reaches it: store_in_chroma goes on to the
\* embedding and the insert unless the depth is not 0 and the URL is
\* already indexed, the record of line 311 being written by then.
AttemptsInsert(st, url, depth, page) ==
  ~(depth # 0 /\
    is_already_indexed(save_url_metadata(st, url, hash(page), depth, "None"),
                       url))

InitProcessUrl ==
  /\ max_links = 1
  /\ max_depth = 0
  /\ queue = <<>>
  /\ visited = {}
  /\ link_count = 0
  /\ results = <<>>
  /\ store \in {StoreOf(S) : S \in SUBSET StoreUrls}
  /\ snapshot = NoFile
  /\ pc = "process_url"
  /\ cur \in [url : StoreUrls, depth : 0..MaxDepthBound]
  /\ res = NoResult
  /\ links = <<>>
  /\ fetchLog = <<>>
  /\ startState = [emptyStore |-> TRUE, hadSnapshot |-> FALSE]
  /\ prev = NoPrev
  /\ collection = {}
  /\ enqueued = <<>>
  /\ dequeued = <<>>
  /\ futures = <<>>

\* Lines 295-315: self.process_url(url, depth); the indexer fails or
\* succeeds.
ProcessUrlCall ==
  /\ pc = "process_url"
  /\ IF SkipsVisited(store, cur.url, cur.depth)
       THEN /\ res' = NoResult
            /\ UNCHANGED <<store, collection, fetchLog>>
       ELSE \E page \in FetchOutcomes, indexed \in BOOLEAN :
              /\ res' = [fetched |-> TRUE, ok |-> page.ok, html |-> page.html]
              /\ store' = process_url_store(store, cur.url, cur.depth, page,
                                            indexed)
              /\ collection' = process_url_collection(collection, store,
                                   cur.url, cur.depth, page, indexed)
              /\ fetchLog' = Append(fetchLog,
                   [url |-> cur.url, depth |-> cur.depth,
                    known |-> is_url_visited(store, cur.url),
                    ok |-> page.ok,
                    indexer |->
                      IF ~page.ok \/ ~AttemptsInsert(store, cur.url, cur.depth,
                                                     page)
                        THEN "none"
                        ELSE IF indexed THEN "ok" ELSE "failed"])
  /\ pc' = "returned"
  /\ UNCHANGED <<max_links, max_depth, queue, visited, link_count, results,
                 snapshot, cur, links, startState, prev, enqueued, dequeued, futures>>

NextProcessUrl == ProcessUrlCall

SpecProcessUrl == InitProcessUrl /\ [][NextProcessUrl]_vars

----------------------------------------------------------------------------
(* The frontier snapshot on its own: any file, any saves, then a start *)

FrontierEntries == {[url |-> Root, depth |-> 0], [url |-> UrlA, depth |-> 1]}
Frontiers == SeqsUpTo(FrontierEntries, MaxFrontier)

\* What queue_file can be when a process starts: absent, a complete pickle,
\* or the beginning of one (the writer was killed, the disk was full).
Files ==
  {NoFile} \cup
  UNION {{[exists |-> TRUE, data |-> SubSeq(pickle_dump(F), 1, k)] :
            k \in 0..(Len(F) + 1)} : F \in Frontiers}

InitSnapshot ==
  /\ max_links = 1
  /\ max_depth = 0
  /\ queue = <<>>
  /\ visited = {}
  /\ link_count = 0
  /\ results = <<>>
  /\ store = <<>>
  /\ snapshot \in Files
  /\ pc = "new"
  /\ cur = NoEntry
  /\ res = NoResult
  /\ links = <<>>
  /\ fetchLog = <<>>
  /\ startState = [emptyStore |-> TRUE, hadSnapshot |-> FALSE]
  /\ prev = NoPrev
  /\ collection = {}
  /\ enqueued = <<>>
  /\ dequeued = <<>>
  /\ futures = <<>>

\* self.save_queue(F) by an earlier process; fetchLog keeps the frontiers
\* saved, in order.
SaveQueueCall ==
  /\ pc = "new"
  /\ Len(fetchLog) < MaxSaves
  /\ \E F \in Frontiers :
       /\ snapshot' = save_queue(F)
       /\ fetchLog' = Append(fetchLog, F)
  /\ UNCHANGED <<max_links, max_depth, queue, visited, link_count, results,
                 store, pc, cur, res, links, startState, prev,
                 collection, enqueued, dequeued, futures>>

\* self.queue = self.load_queue()
LoadQueueCall ==
  /\ pc = "new"
  /\ queue' = load_queue(snapshot)
  /\ pc' = "loaded"
  /\ UNCHANGED <<max_links, max_depth, visited, link_count, results, store,
                 snapshot, cur, res, links, fetchLog, startState, prev,
                 collection, enqueued, dequeued, futures>>

NextSnapshot ==
  \/ SaveQueueCall
  \/ LoadQueueCall
  \/ Start

SpecSnapshot == InitSnapshot /\ [][NextSnapshot]_vars

----------------------------------------------------------------------------
(* The concurrent crawler: comprehensive_crawler_threaded and its workers *)

\* Line 23: the size of the worker pool.
max_threads == 3

check_same_thread_off == FALSE

\* Line 56: sqlite3.connect(self.metadata_db_file) leaves check_same_thread
\* at its default, True.
check_same_thread == TRUE

\* self.conn is created by the thread that constructs the WebScraper; a
\* worker of the pool is another thread, and with check_same_thread every
\* use of the connection there raises sqlite3.ProgrammingError.
WorkerStoreRaises == check_same_thread

\* What process_url returns, as the tuple it is: (None, None, None) at
\* lines 299 and 315, (title, content, html_content) at line 313.
NoneTuple == <<"None", "None", <<>>>>
ContentTuple(page) == <<"Title", "Content", page.html>>

\* Line 404: `title, content = result` raises ValueError unless the tuple
\* has two elements.
UnpackRaises(result) == Len(result) # 2

\* Lines 394-397: one future per entry of self.queue, in order.
Submit(q) ==
  [i \in DOMAIN q |-> [url |-> q[i].url, depth |-> q[i].depth,
                       state |-> "submitted", result |-> <<>>]]

Dispatched == {[url |-> futures[i].url, depth |-> futures[i].depth] :
                 i \in DOMAIN futures}

\* What a process that starts the concurrent crawler can find: nothing; the
\* seed entry an earlier concurrent run left in the snapshot; or the store
\* and the snapshot of depth-1 entries a sequential run left.
LeftBySequential == SeqsUpTo({[url |-> UrlA, depth |-> 1],
                              [url |-> UrlC, depth |-> 1]}, MaxFrontier)
                      \ {<<>>}

ThreadedStarts ==
  {[store |-> <<>>, snapshot |-> NoFile],
   [store |-> <<>>, snapshot |-> save_queue(<<[url |-> Root, depth |-> 0]>>)]}
  \cup {[store |-> StoreOf(S), snapshot |-> save_queue(F)] :
          S \in {{Root}, {Root, UrlA}}, F \in LeftBySequential}

InitThreaded ==
  /\ max_links \in 1..MaxLinksBound
  /\ max_depth \in 0..MaxDepthBound
  /\ queue = <<>>
  /\ visited = {}
  /\ link_count = 0
  /\ results = <<>>
  /\ \E st \in ThreadedStarts : store = st.store /\ snapshot = st.snapshot
  /\ pc = "new"
  /\ cur = NoEntry
  /\ res = NoResult
  /\ links = <<>>
  /\ fetchLog = <<>>
  /\ startState = [emptyStore |-> TRUE, hadSnapshot |-> FALSE]
  /\ prev = NoPrev
  /\ collection = {}
  /\ enqueued = <<>>
  /\ dequeued = <<>>
  /\ futures = <<>>

\* Lines 384-397: restore the frontier or start from the seed, then submit
\* process_url(url, depth) for every entry; the entries stay in self.queue.
StartThreaded ==
  /\ pc = "new"
  /\ LET q == load_queue(snapshot)
         q0 == IF q = <<>> THEN <<[url |-> start_url, depth |-> 0]>> ELSE q
     IN  /\ queue' = q0
         /\ enqueued' = q0
         /\ futures' = Submit(q0)
  /\ startState' = [emptyStore |-> DOMAIN store = {},
                    hadSnapshot |-> snapshot.exists]
  /\ pc' = "collecting"
  /\ UNCHANGED <<max_links, max_depth, visited, link_count, results, store,
                 snapshot, cur, res, links, fetchLog, prev, collection,
                 dequeued>>

Fetching == {i \in DOMAIN futures : futures[i].state = "fetching"}

\* Lines 295-299 in a worker: a free worker takes a future.  For a depth
\* other than 0 it calls is_url_visited, which raises in a worker thread;
\* were the connection usable there, a known URL would return
\* (None, None, None) and an unknown one would go on to the fetch.
WorkerStart ==
  \E i \in DOMAIN futures :
    /\ futures[i].state = "submitted"
    /\ Cardinality(Fetching) < max_threads
    /\ futures' =
         IF futures[i].depth # 0 /\ WorkerStoreRaises
           THEN [futures EXCEPT ![i].state = "raised"]
           ELSE IF SkipsVisited(store, futures[i].url, futures[i].depth)
             THEN [futures EXCEPT ![i].state = "returned",
                                  ![i].result = NoneTuple]
             ELSE [futures EXCEPT ![i].state = "fetching"]
    /\ UNCHANGED <<max_links, max_depth, queue, visited, link_count, results,
                   store, snapshot, pc, cur, res, links, fetchLog, startState,
                   prev, collection, enqueued, dequeued>>

\* Lines 301-315 in a worker: the fetch, then for a page with content
\* save_url_metadata, which raises in a worker thread; were the connection
\* usable there, the record would be written and the tuple returned.
WorkerFetch ==
  \E i \in DOMAIN futures :
    /\ futures[i].state = "fetching"
    /\ \E page \in FetchOutcomes, indexed \in IndexerOutcomes :
         /\ fetchLog' = Append(fetchLog,
                               [url |-> futures[i].url,
                                depth |-> futures[i].depth,
                                known |-> is_url_visited(store, futures[i].url),
                                ok |-> page.ok, indexer |-> "none"])
         /\ IF ~page.ok
              THEN /\ futures' = [futures EXCEPT ![i].state = "returned",
                                                 ![i].result = NoneTuple]
                   /\ UNCHANGED <<store, collection>>
              ELSE IF WorkerStoreRaises
                THEN /\ futures' = [futures EXCEPT ![i].state = "raised"]
                     /\ UNCHANGED <<store, collection>>
                ELSE /\ futures' = [futures EXCEPT
                                      ![i].state = "returned",
                                      ![i].result = ContentTuple(page)]
                     /\ store' = process_url_store(store, futures[i].url,
                                     futures[i].depth, page, indexed)
                     /\ collection' = process_url_collection(collection,
                                     store, futures[i].url, futures[i].depth,
                                     page, indexed)
    /\ UNCHANGED <<max_links, max_depth, queue, visited, link_count, results,
                   snapshot, pc, cur, res, links, startState, prev, enqueued,
                   dequeued>>

\* Lines 399-421: the control loop takes a completed future off `futures`.
\* future.result() re-raises the worker's exception; a returned tuple is
\* true and is unpacked into two names, which raises; the handler of line
\* 420 logs either.  Only a two-element result would be counted and
\* yielded, its text (result[1], which holds no anchor) searched for links.
Collect ==
  \E i \in DOMAIN futures :
    /\ pc = "collecting"
    /\ futures[i].state \in {"raised", "returned"}
    /\ futures' = [futures EXCEPT ![i].state = "collected"]
    /\ IF futures[i].state = "raised" \/ UnpackRaises(futures[i].result)
         THEN UNCHANGED <<link_count, results, queue, enqueued>>
         ELSE LET lc == link_count + 1
                  found == extract_links([ok |-> TRUE, html |-> <<>>], store)
                  keep == SelectSeq(found, LAMBDA l : l \notin visited
                                                     /\ lc < max_links)
                  new == IF CanExpand(lc, max_links, futures[i].depth,
                                      max_depth)
                           THEN [k \in 1..Len(keep) |->
                                   [url |-> keep[k],
                                    depth |-> futures[i].depth + 1]]
                           ELSE <<>>
              IN  /\ link_count' = lc
                  /\ results' = Append(results,
                                       [url |-> futures[i].url, ok |-> TRUE])
                  /\ queue' = Extend(queue, new)
                  /\ enqueued' = enqueued \o new
    /\ UNCHANGED <<max_links, max_depth, visited, store, snapshot, pc, cur,
                   res, links, fetchLog, startState, prev, collection,
                   dequeued>>

\* Line 423: every future of the batch is collected; the queue is saved.
\* `futures` is empty by now, so `while futures` ends.
AfterBatch ==
  /\ pc = "collecting"
  /\ \A i \in DOMAIN futures : futures[i].state = "collected"
  /\ snapshot' = save_queue(queue)
  /\ pc' = "batch_saved"
  /\ UNCHANGED <<max_links, max_depth, queue, visited, link_count, results,
                 store, cur, res, links, fetchLog, startState, prev,
                 collection, enqueued, dequeued, futures>>

\* Lines 425-431: the file is removed when the queue is empty; the
\* generator ends.
ExitThreaded ==
  /\ pc = "batch_saved"
  /\ snapshot' = RemoveIfDrained(queue, snapshot)
  /\ pc' = "done"
  /\ UNCHANGED <<max_links, max_depth, queue, visited, link_count, results,
                 store, cur, res, links, fetchLog, startState, prev,
                 collection, enqueued, dequeued, futures>>

NextThreaded ==
  \/ StartThreaded
  \/ WorkerStart
  \/ WorkerFetch
  \/ Collect
  \/ AfterBatch
  \/ ExitThreaded

SpecThreaded == InitThreaded /\ [][NextThreaded]_vars

----------------------------------------------------------------------------
(* Properties *)

Range(f) == {f[i] : i \in DOMAIN f}

IsSuffix(s, t) ==
  /\ Len(s) <= Len(t)
  /\ SubSeq(t, Len(t) - Len(s) + 1, Len(t)) = s

HasPrefix(s, p) == Len(s) >= Len(p) /\ SubSeq(s, 1, Len(p)) = p

Fresh == startState.emptyStore /\ ~startState.hadSnapshot

InFlight == pc \in {"fetching", "processed"}

\* C1: in every state of a sequential run 0 <= link_count <= max_links, and
\* the list of results never holds more than max_links documents.
C1_BudgetRespected ==
  /\ 0 <= link_count
  /\ link_count <= max_links
  /\ Len(results) <= max_links

C1_Witness ==
  /\ pc = "done"
  /\ link_count = max_links
  /\ Len(results) = max_links
  /\ queue # <<>>

\* C2: no entry whose depth exceeds max_depth is handed to process_url or
\* fetched, be it discovered in this run or restored from a snapshot; it is
\* dequeued and skipped.
C2_NoFetchBeyondMaxDepth ==
  /\ \A i \in DOMAIN fetchLog : fetchLog[i].depth <= max_depth
  /\ InFlight => cur.depth <= max_depth

C2_Witness ==
  /\ pc = "loop"
  /\ startState.hadSnapshot
  /\ cur.depth > max_depth
  /\ cur \notin Range(queue)
  /\ cur.url \notin {fetchLog[i].url : i \in DOMAIN fetchLog}

\* C3: a URL that has a record in the metadata store is never fetched again,
\* in the same run or in a later one, seed and restored entries included.
C3_StoredNeverRefetched == \A i \in DOMAIN fetchLog : ~fetchLog[i].known

ResumeScenario ==
  /\ prev.crashed
  /\ Cardinality(prev.done) = 2
  /\ prev.pending # {}
  /\ Cardinality(prev.done \cup prev.pending) = 3
  /\ max_links = prev.max_links
  /\ max_depth = prev.max_depth
  /\ \A i \in DOMAIN fetchLog : fetchLog[i].ok

\* C5: after a crash of a crawl that processed two of three URLs, the
\* resumed crawler fetches only the remaining URL, and the store ends with
\* exactly three records.
C5_ResumeFetchesOnlyRemaining ==
  ResumeScenario =>
    /\ \A i \in DOMAIN fetchLog : fetchLog[i].url \notin prev.done
    /\ pc = "done" => DOMAIN store = prev.done \cup prev.pending

\* The end-to-end scenario of C6: a finished run with max_links = 1 and
\* max_depth = 1 that started from the seed on an empty store, whose page
\* for the seed holds two distinct in-scope links besides the seed.
SeedLinks == SelectSeq(res.html, LAMBDA h : HasPrefix(h, start_url))

EndToEndScenario ==
  /\ pc = "done"
  /\ max_links = 1
  /\ max_depth = 1
  /\ Fresh
  /\ res.ok
  /\ Len(SeedLinks) = 2
  /\ Cardinality({start_url} \cup Range(SeedLinks)) = 3

\* C6 (as stated): the run returns one document, for the seed, and the
\* snapshot holds the two discovered links.
C6_BudgetLeavesLinksInSnapshot ==
  EndToEndScenario =>
    /\ results = <<[url |-> start_url, ok |-> TRUE]>>
    /\ snapshot.exists
    /\ load_queue(snapshot) = <<[url |-> SeedLinks[1], depth |-> 1],
                          [url |-> SeedLinks[2], depth |-> 1]>>

\* C6 (amended): the run returns one document, for the seed; the two links
\* are not enqueued, the frontier is empty and no snapshot remains.
C6_BudgetDropsLinks ==
  EndToEndScenario =>
    /\ results = <<[url |-> start_url, ok |-> TRUE]>>
    /\ queue = <<>>
    /\ ~snapshot.exists

C6_Witness == EndToEndScenario /\ SeedLinks = <<UrlA, UrlC>>

C8_Terminates ==
  (pc = "new") ~> (pc = "done" /\ (queue = <<>> \/ link_count = max_links))

C8_Witness ==
  /\ pc = "done"
  /\ startState.hadSnapshot
  /\ queue = <<>>
  /\ 0 < link_count
  /\ link_count < max_links

\* C9: no href returned by extract_links has a record in the metadata store
\* at the time of the call; for the hrefs [ex.com/a, other.com/b, ex.com/c]
\* and a store that holds ex.com/a the result is [ex.com/c].
C9_ReturnsOnlyUnknown ==
  pc = "returned" =>
    /\ \A i \in DOMAIN links : ~is_url_visited(store, links[i])
    /\ (res.html = <<UrlA, UrlB, UrlC>> /\ DOMAIN store = {UrlA}) =>
         links = <<UrlC>>

\* C10: every href returned by extract_links has start_url as a
\* case-sensitive prefix, every href of the page with that prefix and
\* without record in the store is returned, and the returned hrefs are in
\* document order.
C10_PrefixFilterInOrder ==
  pc = "returned" =>
    /\ \A h \in Range(links) : HasPrefix(h, start_url)
    /\ \A h \in Range(res.html) :
         (HasPrefix(h, start_url) /\ h \notin DOMAIN store) =>
           h \in Range(links)
    /\ links = SelectSeq(res.html, LAMBDA h : h \in Range(links))

C10_Witness ==
  /\ pc = "returned"
  /\ res.html = <<UrlC, UrlX, UrlA>>
  /\ links = <<UrlC, UrlA>>
  /\ DOMAIN store = {}

\* The number of fetches of the current run that returned content.
Fetched == Cardinality({i \in DOMAIN fetchLog : fetchLog[i].ok})

\* C11: between iterations and at the end of a run, link_count is the
\* number of URLs fetched with success in this run; a URL whose fetch
\* failed has not increased link_count.
C11_CountsOnlySuccessfulFetches ==
  pc \in {"loop", "done"} => link_count = Fetched

\* C12: the depth in a URL's store record is the depth of the frontier
\* entry with which the URL was dequeued when the record was created.
C12_RecordKeepsDiscoveryDepth ==
  \A i \in DOMAIN fetchLog :
    (fetchLog[i].ok /\ ~fetchLog[i].known) =>
      store[fetchLog[i].url].depth = fetchLog[i].depth

\* The first call of the log for url.
FirstCall(url) ==
  fetchLog[CHOOSE i \in DOMAIN fetchLog :
             /\ fetchLog[i].url = url
             /\ \A j \in 1..(i - 1) : fetchLog[j].url # url]

\* C13: after any sequence of save_url_metadata calls the store holds a
\* record exactly for the URLs of the calls, each with the content_hash,
\* depth and title of the first call for its URL; a call for a URL that
\* has a record leaves the store as it is.
C13_InsertIfAbsent ==
  /\ [](pc = "store" =>
         /\ DOMAIN store = {fetchLog[i].url : i \in DOMAIN fetchLog}
         /\ \A u \in DOMAIN store :
              /\ store[u].content_hash = FirstCall(u).content_hash
              /\ store[u].depth = FirstCall(u).depth
              /\ store[u].title = FirstCall(u).title)
  /\ [][(pc = "store" /\ fetchLog' # fetchLog
           /\ fetchLog'[Len(fetchLog')].url \in DOMAIN store)
         => store' = store]_vars

C13_Witness ==
  /\ pc = "store"
  /\ Len(fetchLog) = 2
  /\ fetchLog[1].url = fetchLog[2].url
  /\ fetchLog[1].content_hash # fetchLog[2].content_hash
  /\ fetchLog[1].depth # fetchLog[2].depth
  /\ fetchLog[1].title # fetchLog[2].title
  /\ store[fetchLog[1].url] =
       Row(fetchLog[1].content_hash, fetchLog[1].depth, fetchLog[1].title)

\* C14: in every state of a run the entries dequeued so far, in the order
\* of the pops, are a prefix of the entries enqueued so far, in the order
\* of the pushes, and the frontier holds the rest in that order.
C14_FifoOrder ==
  /\ HasPrefix(enqueued, dequeued)
  /\ enqueued = dequeued \o queue

C14_Witness ==
  /\ pc = "done"
  /\ enqueued = <<[url |-> Root, depth |-> 0], [url |-> UrlA, depth |-> 1],
                  [url |-> UrlC, depth |-> 1]>>
  /\ dequeued = <<[url |-> Root, depth |-> 0], [url |-> UrlA, depth |-> 1]>>
  /\ queue = <<[url |-> UrlC, depth |-> 1]>>

LastSaved == fetchLog[Len(fetchLog)]

\* C15: load_queue after save_queue(F), F not empty, returns the entries of
\* F in the order of F, whatever the file held before that save.
C15_SnapshotRoundTrip ==
  (pc = "loaded" /\ fetchLog # <<>> /\ LastSaved # <<>>) => queue = LastSaved

C15_Witness ==
  /\ pc = "loaded"
  /\ fetchLog = <<<<[url |-> Root, depth |-> 0]>>,
                  <<[url |-> UrlA, depth |-> 1], [url |-> Root, depth |-> 0]>>>>
  /\ queue = <<[url |-> UrlA, depth |-> 1], [url |-> Root, depth |-> 0]>>

\* The file is a complete pickle of some frontier.
Readable(f) == f.exists /\ \E F \in Frontiers : f.data = pickle_dump(F)

Pickled(f) == CHOOSE F \in Frontiers : f.data = pickle_dump(F)

Seed == <<[url |-> start_url, depth |-> 0]>>

\* C16: without snapshot, or with one that cannot be read, load_queue
\* returns an empty frontier and the crawl starts from (start_url, 0)
\* alone; with a readable snapshot of a non-empty frontier the crawl starts
\* from exactly the restored entries.
C16_StartFromSnapshotOrSeed ==
  /\ pc = "loaded" =>
       IF Readable(snapshot) THEN queue = Pickled(snapshot) ELSE queue = <<>>
  /\ pc = "loop" =>
       IF Readable(snapshot) /\ Pickled(snapshot) # <<>>
         THEN queue = Pickled(snapshot)
         ELSE queue = Seed

C16_Witness ==
  /\ pc = "loop"
  /\ snapshot = [exists |-> TRUE,
                 data |-> <<[op |-> "TUPLE", url |-> UrlA, depth |-> 1]>>]
  /\ queue = Seed

\* C17: a fetch that returns no content leaves the metadata store and the
\* collection as they are (no record, no index insert), and the iteration
\* then ends normally: the loop is back at its head with the frontier it
\* had.
C17_FailedFetchRecordsNothing ==
  [][/\ (pc = "fetching" /\ pc' = "processed" /\ res'.fetched /\ ~res'.ok)
         => (store' = store /\ collection' = collection)
     /\ (pc = "processed" /\ res.fetched /\ ~res.ok /\ pc' # "crashed")
         => (pc' = "loop" /\ queue' = queue /\ store' = store
             /\ collection' = collection)]_vars

C17_Witness ==
  /\ pc = "processed"
  /\ Len(fetchLog) = 2
  /\ ~fetchLog[1].ok
  /\ fetchLog[1].url \notin DOMAIN store
  /\ fetchLog[1].url \notin collection
  /\ fetchLog[2].ok
  /\ fetchLog[2].url \in DOMAIN store

\* C18: a record with processed = true belongs to a URL the collection
\* holds; when the indexer fails for a URL, the crawl goes on with the
\* result of the fetch, the URL has a record, and the record is not marked
\* processed unless an earlier insert for that URL had marked it.
C18_ProcessedOnlyAfterInsert ==
  /\ [](\A u \in DOMAIN store : store[u].processed => u \in collection)
  /\ [][(Len(fetchLog') > Len(fetchLog)
          /\ fetchLog'[Len(fetchLog')].indexer = "failed")
          => /\ pc' = "processed"
             /\ cur.url \in DOMAIN store'
             /\ store'[cur.url].processed
                  => (cur.url \in DOMAIN store /\ store[cur.url].processed)]_vars

C18_Witness ==
  /\ pc = "loop"
  /\ Len(fetchLog) = 2
  /\ fetchLog[1].indexer = "failed"
  /\ ~fetchLog[1].known
  /\ fetchLog[1].url \in DOMAIN store
  /\ ~store[fetchLog[1].url].processed
  /\ fetchLog[1].url \notin collection
  /\ fetchLog[2].indexer = "ok"
  /\ store[fetchLog[2].url].processed

\* C19: a failure of a metadata store call does not end the run: the
\* handler of the control loop is never entered, the crawler returns only
\* when the frontier is empty or the budget is used up.
C19_StoreFailureDoesNotAbort ==
  /\ pc \notin {"except", "aborted"}
  /\ pc = "done" => ~LoopCond(queue, link_count, max_links)

\* C20: when an exception has ended the run, the snapshot holds the
\* in-memory frontier of that moment.
C20_CheckpointOnFailure ==
  pc = "aborted" => load_queue(snapshot) = queue

\* C21: the fetches of one run are for pairwise distinct URLs; an entry
\* whose URL this run has already handed to process_url is dequeued and
\* skipped.
C21_FetchedOncePerRun ==
  \A i, j \in DOMAIN fetchLog : fetchLog[i].url = fetchLog[j].url => i = j

C21_Witness ==
  /\ pc = "loop"
  /\ Len(dequeued) = 2
  /\ dequeued[1].url = dequeued[2].url
  /\ cur = dequeued[2]
  /\ Len(fetchLog) = 1
  /\ fetchLog[1].url = cur.url

NonDecreasing(q) ==
  \A i, j \in DOMAIN q : i <= j => q[i].depth <= q[j].depth

\* C22: in a run that starts from the seed alone, the depths of the entries
\* popped are non-decreasing, the frontier is ordered by non-decreasing
\* depth, and its depths span at most two consecutive values.
C22_BreadthFirst ==
  ~startState.hadSnapshot =>
    /\ NonDecreasing(dequeued)
    /\ NonDecreasing(queue)
    /\ queue # <<>> => queue[Len(queue)].depth - queue[1].depth <= 1

C22_Witness ==
  /\ pc = "loop"
  /\ ~startState.hadSnapshot
  /\ Len(dequeued) = 2
  /\ Len(queue) >= 2
  /\ queue[1].depth = 1
  /\ queue[Len(queue)].depth = 2

\* C23: when process_url has fetched a URL with success, at whatever depth,
\* the index insert was attempted for it, and when the insert succeeded the
\* URL is in the collection and its record is marked processed.
C23_InsertAttemptedAtAnyDepth ==
  (pc = "returned" /\ res.fetched /\ res.ok) =>
    /\ fetchLog[1].indexer # "none"
    /\ fetchLog[1].indexer = "ok" =>
         (cur.url \in collection /\ store[cur.url].processed)

\* The URLs of the batch whose fetch returned content.
FetchedOk == {fetchLog[i].url : i \in {j \in DOMAIN fetchLog : fetchLog[j].ok}}

\* C24: when the concurrent crawler has ended, every URL of the batch that
\* was fetched with content has been yielded to the caller, and link_count
\* counts exactly those URLs.
C24_YieldsAndCountsEachSuccess ==
  pc = "done" =>
    /\ FetchedOk \subseteq {results[i].url : i \in DOMAIN results}
    /\ link_count = Cardinality(FetchedOk)

\* C25: the concurrent crawler ends only with an empty frontier or with
\* link_count = max_links.
C25_RunsUntilDrainedOrBudget ==
  pc = "done" => (queue = <<>> \/ link_count = max_links)

\* C26: the checkpoint written after the batch lists no entry that was
\* dispatched in the batch, and when the crawler has ended without a new
\* entry in the frontier, the frontier is empty and no snapshot remains.
C26_CheckpointExcludesDispatched ==
  /\ (pc \in {"batch_saved", "done"} /\ snapshot.exists)
       => Range(load_queue(snapshot)) \cap Dispatched = {}
  /\ (pc = "done" /\ Range(queue) \subseteq Dispatched)
       => (queue = <<>> /\ ~snapshot.exists)

====
